---- MODULE Spec2Model ----
(***************************************************************************)
(* A model of the two programs of the repository:                          *)
(*   src/src/try2.rs  - build_ast, the recursive builder of the shaped     *)
(*                      tree of Thing elements (specification Spec);       *)
(*   src/src/main.rs  - main and generate_json, the category extractors    *)
(*                      (specification SpecMain).                          *)
(* A syntax node is a record [kind, field, named, tok, children]: its      *)
(* kind-tag, the field name it occupies in its parent ("" when none),      *)
(* whether it is a named node, the token a leaf stands for, and its        *)
(* ordered children.  A String is a sequence of tokens; an Option is a     *)
(* sequence of length 0 (None) or 1 (Some).  The variable calls is not     *)
(* state of the program: it logs the path of the node of every call of     *)
(* build_ast, in the order of the calls.                                   *)
(***************************************************************************)
EXTENDS Integers, Sequences, FiniteSets, TLC

VARIABLES tree, ast_root, stack, bpc, ast_json, calls,
          args, code, pc, json_output, stdout, stderr, exit_code

vars == <<tree, ast_root, stack, bpc, ast_json, calls,
          args, code, pc, json_output, stdout, stderr, exit_code>>

astVars == <<tree, ast_root, stack, bpc, ast_json, calls>>
mainVars == <<args, code, pc, json_output, stdout, stderr, exit_code>>

\* ------------------------------------------------------------------------
\* Bounds
\* ------------------------------------------------------------------------
\* Largest number of nodes of a syntax tree given to build_ast.
MaxNodes == 4
\* Largest size of a source file read by main: the number of its items plus
\* the number of parts inside them.
MaxSize == 3

\* ------------------------------------------------------------------------
\* Options, strings, syntax nodes
\* ------------------------------------------------------------------------
None == <<>>
Some(x) == <<x>>
is_none(o) == o = <<>>
is_some(o) == o # <<>>

Node(kind, field, named, tok, children) ==
    [kind |-> kind, field |-> field, named |-> named, tok |-> tok,
     children |-> children]

\* A leaf that is an anonymous token: its kind-tag is its text.
Token(t) == Node(t, "", FALSE, t, <<>>)

Range(s) == {s[i] : i \in 1..Len(s)}

RECURSIVE Flatten(_)
Flatten(ss) == IF ss = <<>> THEN <<>> ELSE Head(ss) \o Flatten(Tail(ss))

\* The source text under a node: the tokens of its leaves, in order.
RECURSIVE try2_node_text(_)
try2_node_text(node) ==
    IF node.children = <<>> THEN <<node.tok>>
    ELSE Flatten([i \in 1..Len(node.children) |->
                     try2_node_text(node.children[i])])

\* The node at a path (the sequence of child indexes from the root).
RECURSIVE NodeAt(_, _)
NodeAt(node, path) ==
    IF path = <<>> THEN node
    ELSE NodeAt(node.children[Head(path)], Tail(path))

RECURSIVE Paths(_)
Paths(node) ==
    {<<>>} \cup UNION {{<<i>> \o p : p \in Paths(node.children[i])} :
                          i \in 1..Len(node.children)}

\* ------------------------------------------------------------------------
\* try2.rs: Kind
\* ------------------------------------------------------------------------
\* The variants of Kind in declaration order, which is the derived Ord.
Kind ==
    <<"Root", "Comment", "Import", "Struct", "Enum", "Derive", "Function",
      "Method", "Field", "Variable", "Type", "Trait", "Impl", "If", "Else",
      "Loop", "Tuple", "Array", "FunctionCall", "Undefined">>

KindRank(k) == CHOOSE i \in 1..Len(Kind) : Kind[i] = k

Kind_from_str(s) ==
    CASE s = "source_file" -> "Root"
      [] s = "line_comment" -> "Comment"
      [] s = "import" -> "Import"
      [] s = "struct_item" -> "Struct"
      [] s = "enum_item" -> "Enum"
      [] s = "attribute_item" -> "Derive"
      [] s = "function_item" -> "Function"
      [] s = "impl_item" -> "Impl"
      [] s = "field_declaration" -> "Field"
      [] s = "let_declaration" -> "Variable"
      [] s = "type_item" -> "Type"
      [] s = "trait_item" -> "Trait"
      [] s = "if_expression" -> "If"
      [] s = "else_clause" -> "Else"
      [] s = "loop_expression" -> "Loop"
      [] s = "tuple_expression" -> "Tuple"
      [] s = "array_expression" -> "Array"
      [] s = "call_expression" -> "FunctionCall"
      [] OTHER -> "Undefined"

is_undefined(kind) == kind = "Undefined"

\* ------------------------------------------------------------------------
\* try2.rs: Thing
\* ------------------------------------------------------------------------
\* Thing::new.  The field node is not a field of the program's Thing: it
\* records the path of the syntax node the element was created for, so that
\* an element can be followed while it moves inside sorted children lists.
RootElem == <<0>>

Thing_new(kind, text, path) ==
    [kind |-> kind, name |-> None, text |-> text, children |-> <<>>,
     relations |-> <<>>, node |-> path]

add_parent_name_overwrite(name, parent) == [parent EXCEPT !.name = Some(name)]

add_parent_name(name, parent) ==
    IF is_none(parent.name) THEN [parent EXCEPT !.name = Some(name)]
    ELSE parent

parent_namer(node_kind, body, parent) ==
    IF node_kind = "type_identifier" \/ node_kind = "identifier"
    THEN add_parent_name(body, parent)
    ELSE parent

\* Byte order of the tokens a name can consist of; "" is the least string.
Alphabet == <<"Point", "f64">>

TokRank(t) ==
    IF \E i \in 1..Len(Alphabet) : Alphabet[i] = t
    THEN CHOOSE i \in 1..Len(Alphabet) : Alphabet[i] = t
    ELSE Len(Alphabet) + 1

\* String comparison: -1, 0, 1 for less, equal, greater.
RECURSIVE StrCmp(_, _)
StrCmp(a, b) ==
    IF a = <<>> /\ b = <<>> THEN 0
    ELSE IF a = <<>> THEN -1
    ELSE IF b = <<>> THEN 1
    ELSE IF TokRank(Head(a)) < TokRank(Head(b)) THEN -1
    ELSE IF TokRank(Head(a)) > TokRank(Head(b)) THEN 1
    ELSE StrCmp(Tail(a), Tail(b))

unwrap_or_empty(o) == IF is_none(o) THEN <<>> ELSE o[1]

\* The comparator of the sort_by call of build_ast.
ThingCmp(a, b) ==
    IF KindRank(a.kind) < KindRank(b.kind) THEN -1
    ELSE IF KindRank(a.kind) > KindRank(b.kind) THEN 1
    ELSE StrCmp(unwrap_or_empty(a.name), unwrap_or_empty(b.name))

\* Insert x after every element that is not greater than it.
RECURSIVE InsertSorted(_, _)
InsertSorted(x, s) ==
    IF s = <<>> THEN <<x>>
    ELSE IF ThingCmp(x, Head(s)) < 0 THEN <<x>> \o s
    ELSE <<Head(s)>> \o InsertSorted(x, Tail(s))

\* slice::sort_by, a stable sort.
RECURSIVE sort_by(_)
sort_by(s) ==
    IF s = <<>> THEN <<>>
    ELSE InsertSorted(s[Len(s)], sort_by(SubSeq(s, 1, Len(s) - 1)))

\* serde serialization of a Thing with its skip_serializing_if attributes.
RECURSIVE to_json(_)
to_json(t) ==
    LET base == [kind |-> t.kind, text |-> t.text]
        withName == IF is_none(t.name) THEN base
                    ELSE [k \in DOMAIN base \cup {"name"} |->
                             IF k = "name" THEN t.name[1] ELSE base[k]]
        withChildren ==
            IF t.children = <<>> THEN withName
            ELSE [k \in DOMAIN withName \cup {"children"} |->
                     IF k = "children"
                     THEN [i \in 1..Len(t.children) |-> to_json(t.children[i])]
                     ELSE withName[k]]
    IN  IF t.relations = <<>> THEN withChildren
        ELSE [k \in DOMAIN withChildren \cup {"relations"} |->
                 IF k = "relations" THEN t.relations ELSE withChildren[k]]

\* ------------------------------------------------------------------------
\* try2.rs: the syntax trees given to build_ast
\* ------------------------------------------------------------------------
\* Kind-tags of inner nodes and leaves; declaration_list has no Kind.
TreeTags == {"impl_item", "function_item", "struct_item", "declaration_list"}
\* Kind-tags of identifier tokens, which are leaves.
IdTags == {"identifier", "type_identifier"}
\* The identifier tokens of the trees: a type name and a plain identifier.
IdTokens == {<<"type_identifier", "Point">>, <<"identifier", "f64">>}

Labels == (TreeTags \X {""}) \cup IdTokens

RECURSIVE ToNode(_, _, _, _)
ToNode(i, n, par, lab) ==
    LET kids == {j \in (i+1)..n : par[j] = i}
        RECURSIVE Build(_, _)
        Build(j, acc) ==
            IF j > n THEN acc
            ELSE Build(j + 1, IF j \in kids
                              THEN Append(acc, ToNode(j, n, par, lab))
                              ELSE acc)
        kind == IF i = 1 THEN "source_file" ELSE lab[i][1]
        tok == IF i = 1 \/ lab[i][2] = "" THEN kind ELSE lab[i][2]
    IN  Node(kind, "", TRUE, tok, Build(i + 1, <<>>))

ParentMaps(n) == {par \in [2..n -> 1..n] : \A j \in 2..n : par[j] < j}

LabelMaps(n, par) ==
    {lab \in [2..n -> Labels] :
        \A j \in 2..n : lab[j][1] \in IdTags => \A c \in 2..n : par[c] # j}

SyntaxTrees ==
    UNION {UNION {{ToNode(1, n, par, lab) : lab \in LabelMaps(n, par)} :
                     par \in ParentMaps(n)} : n \in 1..MaxNodes}

\* ------------------------------------------------------------------------
\* try2.rs: generate_ast_with_relations and build_ast
\* ------------------------------------------------------------------------
\* A frame is one activation of build_ast past line 137: its node, the
\* element it is filling and the index of the next child to handle.  The
\* parent of the top frame is the element of the frame below, or ast_root.
Frame(node, path) ==
    [node |-> node, path |-> path,
     element |-> Thing_new(Kind_from_str(node.kind), try2_node_text(node), path),
     idx |-> 1]

Top == stack[Len(stack)]

NextChild == Top.node.children[Top.idx]

IsImplMethod ==
    /\ Top.element.kind = "Impl"
    /\ NextChild.kind = "function_item"

\* generate_ast_with_relations up to the entry of build_ast on the root
\* node (lines 112-113 and 131-137).
Generate ==
    /\ bpc = "init"
    /\ ast_root' = parent_namer(tree.kind, try2_node_text(tree),
                                Thing_new("Root", <<"Root">>, RootElem))
    /\ stack' = <<Frame(tree, <<>>)>>
    /\ calls' = Append(calls, <<>>)
    /\ bpc' = "building"
    /\ UNCHANGED <<tree, ast_json>>

\* A recursive call of build_ast on the next child (lines 149 and 154, then
\* lines 131-137 of the callee).
Call ==
    /\ bpc = "building"
    /\ stack # <<>>
    /\ Top.idx <= Len(Top.node.children)
    /\ ~IsImplMethod
    /\ LET child == NextChild
           named == parent_namer(child.kind, try2_node_text(child), Top.element)
           caller == [Top EXCEPT !.element = named, !.idx = @ + 1]
       IN  stack' = Append([stack EXCEPT ![Len(stack)] = caller],
                           Frame(child, Append(Top.path, Top.idx)))
    /\ calls' = Append(calls, Append(Top.path, Top.idx))
    /\ UNCHANGED <<tree, ast_root, bpc, ast_json>>

\* A function_item child of an Impl node (lines 144-147).
ImplMethod ==
    /\ bpc = "building"
    /\ stack # <<>>
    /\ Top.idx <= Len(Top.node.children)
    /\ IsImplMethod
    /\ LET child == NextChild
           method_element == Thing_new("Function", try2_node_text(child),
                                       Append(Top.path, Top.idx))
       IN  stack' = [stack EXCEPT ![Len(stack)] =
                        [Top EXCEPT !.element.children = Append(@, method_element),
                                    !.idx = @ + 1]]
    /\ UNCHANGED <<tree, ast_root, bpc, ast_json, calls>>

\* Lines 158-169: attach the element to the parent and sort the parent's
\* children.
AttachAlways(element, parent) ==
    [parent EXCEPT !.children = sort_by(Append(@, element))]

Attach(element, parent) ==
    [parent EXCEPT !.children =
        sort_by(IF ~is_undefined(element.kind) THEN Append(@, element) ELSE @)]

\* The return of build_ast, its children done.
Return ==
    /\ bpc = "building"
    /\ stack # <<>>
    /\ Top.idx > Len(Top.node.children)
    /\ IF Len(stack) = 1
       THEN /\ ast_root' = Attach(Top.element, ast_root)
            /\ stack' = <<>>
       ELSE /\ stack' = [SubSeq(stack, 1, Len(stack) - 1)
                            EXCEPT ![Len(stack) - 1].element =
                                Attach(Top.element, @)]
            /\ UNCHANGED ast_root
    /\ UNCHANGED <<tree, bpc, ast_json, calls>>

\* Lines 114-115: the shaped tree is serialized.
Serialize ==
    /\ bpc = "building"
    /\ stack = <<>>
    /\ ast_json' = Some(to_json(ast_root))
    /\ bpc' = "done"
    /\ UNCHANGED <<tree, ast_root, stack, calls>>

MainIdle ==
    /\ args = 0 /\ code = None /\ pc = "idle" /\ json_output = None
    /\ stdout = <<>> /\ stderr = <<>> /\ exit_code = None

Init ==
    /\ tree \in SyntaxTrees
    /\ ast_root = None
    /\ stack = <<>>
    /\ bpc = "init"
    /\ ast_json = None
    /\ calls = <<>>
    /\ MainIdle

Next ==
    \/ Generate /\ UNCHANGED mainVars
    \/ Call /\ UNCHANGED mainVars
    \/ ImplMethod /\ UNCHANGED mainVars
    \/ Return /\ UNCHANGED mainVars
    \/ Serialize /\ UNCHANGED mainVars

Spec == Init /\ [][Next]_vars

\* ------------------------------------------------------------------------
\* try2.rs: properties of build_ast
\* ------------------------------------------------------------------------
\* An element and every element below it.
RECURSIVE Things(_)
Things(t) == {t} \cup UNION {Things(t.children[i]) : i \in 1..Len(t.children)}

\* Every element that exists in the current state: the shaped tree under
\* ast_root and the elements still being filled by active calls.
Elems ==
    IF bpc = "init" THEN {}
    ELSE Things(ast_root) \cup
         UNION {Things(stack[i].element) : i \in 1..Len(stack)}

Front(s) == SubSeq(s, 1, Len(s) - 1)

IsIdTag(k) == k = "identifier" \/ k = "type_identifier"

\* Indexes of the direct children with a given property.
FunctionChildren(node) ==
    {i \in 1..Len(node.children) : node.children[i].kind = "function_item"}

IdChildren(node) ==
    {i \in 1..Len(node.children) : IsIdTag(node.children[i].kind)}

FirstIdChildText(node) ==
    try2_node_text(node.children[CHOOSE i \in IdChildren(node) :
                                    \A j \in IdChildren(node) : i <= j])

\* The unmapped nodes that are a child of a classified node and have a
\* function_item child.
UnmappedWrappers ==
    {p \in Paths(tree) \ {<<>>} :
        /\ is_undefined(Kind_from_str(NodeAt(tree, p).kind))
        /\ ~is_undefined(Kind_from_str(NodeAt(tree, Front(p)).kind))
        /\ FunctionChildren(NodeAt(tree, p)) # {}}

\* C1 (as claimed): when the build is complete, for every unmapped node that
\* is a child of a classified node and has a function_item child, the shaped
\* tree holds no element for the wrapper and holds a Function element for
\* each such function_item.
C1_UndefinedFlattening ==
    bpc = "done" =>
        \A p \in UnmappedWrappers :
            /\ \A t \in Things(ast_root) : t.node # p
            /\ \A i \in FunctionChildren(NodeAt(tree, p)) :
                  \E t \in Things(ast_root) :
                      t.node = Append(p, i) /\ t.kind = "Function"

\* C2 (as claimed): whenever an element is in the children of a parent
\* element, the edge (parent.kind, child.kind) is recorded in a relations
\* list of the tree.
C2_RelationEdges ==
    \A t \in Elems : \A i \in 1..Len(t.children) :
        \E u \in Elems : <<t.kind, t.children[i].kind>> \in Range(u.relations)

\* C3: in every step of the build, an element's name that is set does not
\* change, and a name that becomes set is the text of the first direct
\* child of the element's node whose kind-tag is identifier or
\* type_identifier; and when the build is complete, every Struct element
\* whose node has such a child is named by the first of them.
C3_NameStep ==
    \A t \in Elems : \A u \in Elems' :
        t.node = u.node =>
            /\ is_some(t.name) => u.name = t.name
            /\ (is_none(t.name) /\ is_some(u.name)) =>
                  /\ t.node # RootElem
                  /\ IdChildren(NodeAt(tree, t.node)) # {}
                  /\ u.name = Some(FirstIdChildText(NodeAt(tree, t.node)))

C3_StructNamed ==
    bpc = "done" =>
        \A t \in Things(ast_root) :
            (t.kind = "Struct" /\ IdChildren(NodeAt(tree, t.node)) # {}) =>
                t.name = Some(FirstIdChildText(NodeAt(tree, t.node)))

C3_NameWriteOnce == [][C3_NameStep]_vars /\ []C3_StructNamed

\* C3 witness: the build is complete for a struct node whose first
\* identifier child is Point and which has a later identifier f64, and the
\* Struct element is named Point.
C3_Witness ==
    /\ bpc = "done"
    /\ \E t \in Things(ast_root) :
          /\ t.kind = "Struct"
          /\ t.name = Some(<<"Point">>)
          /\ LET n == NodeAt(tree, t.node)
             IN  \E i, j \in IdChildren(n) :
                    /\ i < j
                    /\ n.children[i].tok = "Point"
                    /\ n.children[j].tok = "f64"

\* C4: no element of kind Undefined is in the children of any element, in
\* any state of the build.
C4_NoUndefinedChild ==
    \A t \in Elems : \A i \in 1..Len(t.children) :
        ~is_undefined(t.children[i].kind)

\* C4 witness: the build is complete for a tree with an unmapped node below
\* the root, whose element was created and not attached.
C4_Witness ==
    /\ bpc = "done"
    /\ \E p \in Paths(tree) : is_undefined(Kind_from_str(NodeAt(tree, p).kind))
    /\ ast_root.children # <<>>

\* ------------------------------------------------------------------------
\* try2.rs: descent and order of build_ast
\* ------------------------------------------------------------------------
\* The number of calls of build_ast on the node at a path.
CallsOn(p) == Cardinality({i \in 1..Len(calls) : calls[i] = p})

\* The function_item nodes that are a direct child of an impl_item node.
ImplMethods ==
    {p \in Paths(tree) \ {<<>>} :
        /\ NodeAt(tree, p).kind = "function_item"
        /\ NodeAt(tree, Front(p)).kind = "impl_item"}

\* The children of a node for which build_ast attaches an element.
ClassifiedChildren(node) ==
    {i \in 1..Len(node.children) :
        ~is_undefined(Kind_from_str(node.children[i].kind))}

\* C11 (as claimed): when the build is complete, build_ast has been called
\* exactly once on every node of the tree; and every Function element of a
\* function_item directly below an impl_item has its inferred name and an
\* element for each classified child of its node.
C11_FullDescent ==
    bpc = "done" =>
        /\ \A p \in Paths(tree) : CallsOn(p) = 1
        /\ \A t \in Things(ast_root) :
              t.node \in ImplMethods =>
                  LET n == NodeAt(tree, t.node)
                  IN  /\ IdChildren(n) # {} => t.name = Some(FirstIdChildText(n))
                      /\ \A i \in ClassifiedChildren(n) :
                            \E c \in Range(t.children) : c.node = Append(t.node, i)

\* The position in the document of the node of an element among the
\* children of its parent node.
DocIndex(t) == IF t.node = <<>> THEN 1 ELSE t.node[Len(t.node)]

\* Non-decreasing in (kind, name), elements with equal keys in document
\* order.
StableSorted(children) ==
    \A i, j \in 1..Len(children) :
        i < j =>
            /\ ThingCmp(children[i], children[j]) <= 0
            /\ ThingCmp(children[i], children[j]) = 0 =>
                  DocIndex(children[i]) < DocIndex(children[j])

\* C12 (as claimed): when the build is complete, the children of every
\* element of the shaped tree, Impl elements included, are in the order of
\* the stable sort by (kind, name) of their document order.
C12_ChildrenSorted ==
    bpc = "done" => \A t \in Things(ast_root) : StableSorted(t.children)


\* ------------------------------------------------------------------------
\* main.rs: the syntax-tree interface
\* ------------------------------------------------------------------------
RECURSIVE node_text(_)
node_text(node) ==
    IF node.children = <<>> THEN <<node.tok>>
    ELSE Flatten([i \in 1..Len(node.children) |-> node_text(node.children[i])])

\* Node::named_children.
IsNamed(n) == n.named
named_children(node) == SelectSeq(node.children, IsNamed)

\* Node::child_by_field_name: the first child in that field, if any.
child_by_field_name(node, field) ==
    LET hits == {i \in 1..Len(node.children) : node.children[i].field = field}
    IN  IF hits = {} THEN None
        ELSE Some(node.children[CHOOSE i \in hits : \A j \in hits : i <= j])

\* Option::map(|n| self.node_text(n)).
map_node_text(o) == IF is_none(o) THEN None ELSE Some(node_text(o[1]))

\* str::contains and str::starts_with, on the tokens of a string.
contains(text, tok) == \E i \in 1..Len(text) : text[i] = tok
starts_with(text, tok) == text # <<>> /\ text[1] = tok

\* The outcome of an extractor: the value it returns, or a panic (an unwrap
\* of None), and the diagnostics it has written to the error stream.
Ok(v, e) == [panic |-> FALSE, val |-> v, err |-> e]
Panic(e) == [panic |-> TRUE, val |-> <<>>,
             err |-> Append(e, "called Option::unwrap() on a None value")]

Thing(name, attributes, children) ==
    [name |-> name, attributes |-> attributes, children |-> children]

\* A loop that pushes to a Vec: rs[i] is the outcome of the i-th iteration,
\* whose value is the sequence of the elements it pushes.  The loop ends at
\* the first iteration that panics.
Collect(rs) ==
    LET panics == {i \in 1..Len(rs) : rs[i].panic}
        last == IF panics = {} THEN Len(rs)
                ELSE CHOOSE i \in panics : \A j \in panics : i <= j
    IN  [panic |-> panics # {},
         val |-> IF panics # {} THEN <<>>
                 ELSE Flatten([i \in 1..Len(rs) |-> rs[i].val]),
         err |-> Flatten([i \in 1..last |-> rs[i].err])]

\* ------------------------------------------------------------------------
\* main.rs: the extractors
\* ------------------------------------------------------------------------
extract_imports(node) ==
    Collect([i \in 1..Len(node.children) |->
        IF node.children[i].kind = "use_declaration"
        THEN Ok(<<Thing(node_text(node.children[i]), <<>>, <<>>)>>, <<>>)
        ELSE Ok(<<>>, <<>>)])

parameter_value(param) ==
    [name |-> node_text(param),
     type |-> map_node_text(child_by_field_name(param, "type")),
     is_mutable |-> param.kind = "mut",
     is_reference |-> starts_with(node_text(param), "&"),
     default_value |-> map_node_text(child_by_field_name(param, "default_value"))]

parameters_of(parameters_node) ==
    IF is_none(parameters_node) THEN <<>>
    ELSE [i \in 1..Len(named_children(parameters_node[1])) |->
             parameter_value(named_children(parameters_node[1])[i])]

extract_parameters(function_node) ==
    parameters_of(child_by_field_name(function_node, "parameters"))

called_method(descendant) ==
    IF /\ descendant.kind = "call_expression"
       /\ is_some(child_by_field_name(descendant, "function"))
    THEN <<[name |-> node_text(child_by_field_name(descendant, "function")[1])]>>
    ELSE <<>>

extract_called_methods(function_node) ==
    Flatten([i \in 1..Len(function_node.children) |->
                called_method(function_node.children[i])])

method_variable(descendant) ==
    IF descendant.kind # "let_declaration" THEN Ok(<<>>, <<>>)
    ELSE IF is_none(child_by_field_name(descendant, "name")) THEN Panic(<<>>)
    ELSE Ok(<<[name |-> node_text(child_by_field_name(descendant, "name")[1]),
               type |-> map_node_text(child_by_field_name(descendant, "value"))]>>,
            <<>>)

extract_method_variables(function_node) ==
    Collect([i \in 1..Len(function_node.children) |->
                method_variable(function_node.children[i])])

\* Lines 65-92, with the outcome of extract_method_variables.
function_entry(child, local_variables) ==
    IF is_none(child_by_field_name(child, "name")) THEN Panic(<<>>)
    ELSE IF local_variables.panic THEN Panic(<<>>)
    ELSE Ok(<<Thing(node_text(child_by_field_name(child, "name")[1]),
                    <<extract_parameters(child), node_text(child),
                      extract_called_methods(child), local_variables.val>>,
                    <<>>)>>, <<>>)

function_thing(child) ==
    IF child.kind = "function_item"
    THEN function_entry(child, extract_method_variables(child))
    ELSE Ok(<<>>, <<>>)

\* The descendants of a node in document order.
RECURSIVE Descendants(_)
Descendants(node) ==
    Flatten([i \in 1..Len(node.children) |->
                <<node.children[i]>> \o Descendants(node.children[i])])

functions_of(nodes) == Collect([i \in 1..Len(nodes) |-> function_thing(nodes[i])])

\* extract_functions, changed to scan every descendant of the given node.
extract_functions_deep(node) == functions_of(Descendants(node))

extract_functions(node) == functions_of(node.children)

metadata_of(child) ==
    IF child.kind # "attribute_item" THEN Ok(<<>>, <<>>)
    ELSE IF is_some(child_by_field_name(child, "attribute"))
    THEN Ok(<<[attribute |->
                  node_text(child_by_field_name(child, "attribute")[1])]>>, <<>>)
    ELSE Ok(<<>>, <<"Warning: attribute field not found in child node.">>)

extract_metadata(node) ==
    Collect([i \in 1..Len(node.children) |-> metadata_of(node.children[i])])

\* Lines 178-201, with the outcome of extract_metadata on the field.
field_entry(field, attributes) ==
    IF is_none(child_by_field_name(field, "name"))
    THEN Ok(<<>>, <<"Warning: name field not found in field node.">>)
    ELSE Ok(<<Thing(node_text(child_by_field_name(field, "name")[1]),
                    <<[type |-> map_node_text(child_by_field_name(field, "type")),
                       attributes |-> attributes.val]>>,
                    <<>>)>>,
            attributes.err)

field_thing(field) == field_entry(field, extract_metadata(field))

fields_of(body) == Collect([i \in 1..Len(body) |-> field_thing(body[i])])

body_children(body_node) ==
    IF is_none(body_node) THEN <<>> ELSE named_children(body_node[1])

\* The named children up to and with the first one that has no name.
UpToGap(body) ==
    LET gaps == {i \in 1..Len(body) : is_none(child_by_field_name(body[i], "name"))}
    IN  IF gaps = {} THEN body
        ELSE SubSeq(body, 1, CHOOSE i \in gaps : \A j \in gaps : i <= j)

\* extract_fields, changed to stop at the first field without a name.
extract_fields_break(struct_node) ==
    fields_of(UpToGap(body_children(child_by_field_name(struct_node, "body"))))

extract_fields(struct_node) ==
    fields_of(body_children(child_by_field_name(struct_node, "body")))

\* Lines 157-164, with the outcome of extract_fields on the struct.
struct_entry(child, fields) ==
    IF child.kind = "struct_item" /\ is_some(child_by_field_name(child, "name"))
    THEN Ok(<<Thing(node_text(child_by_field_name(child, "name")[1]), <<>>,
                    fields.val)>>, fields.err)
    ELSE Ok(<<>>, <<>>)

extract_structs(node) ==
    Collect([i \in 1..Len(node.children) |->
                struct_entry(node.children[i], extract_fields(node.children[i]))])

variant_thing(variant) ==
    IF is_none(child_by_field_name(variant, "name")) THEN Panic(<<>>)
    ELSE Ok(<<Thing(node_text(child_by_field_name(variant, "name")[1]),
                    <<>>, <<>>)>>, <<>>)

variants_of(body) == Collect([i \in 1..Len(body) |-> variant_thing(body[i])])

extract_variants(enum_node) ==
    variants_of(body_children(child_by_field_name(enum_node, "body")))

\* Lines 212-219, with the outcome of extract_variants on the enum.
enum_entry(child, variants) ==
    IF child.kind # "enum_item" THEN Ok(<<>>, <<>>)
    ELSE IF is_none(child_by_field_name(child, "name")) THEN Panic(<<>>)
    ELSE IF variants.panic THEN Panic(<<>>)
    ELSE Ok(<<Thing(node_text(child_by_field_name(child, "name")[1]), <<>>,
                    variants.val)>>, <<>>)

extract_enums(node) ==
    Collect([i \in 1..Len(node.children) |->
                enum_entry(node.children[i], extract_variants(node.children[i]))])

impl_thing(child) ==
    Thing(node_text(child_by_field_name(child, "name")[1]),
          <<[type |-> <<"impl">>,
             trait |-> map_node_text(child_by_field_name(child, "trait")),
             generics |->
                 map_node_text(child_by_field_name(child, "generic_parameters"))]>>,
          <<>>)

\* Lines 243-275, with the outcome of extract_metadata on the child.
relation_entry(child, metadata) ==
    IF child.kind = "impl_item"
    THEN IF is_some(child_by_field_name(child, "name"))
         THEN Ok(<<impl_thing(child)>>, <<>>)
         ELSE Ok(<<>>, <<>>)
    ELSE IF child.kind = "attribute_item"
    THEN IF metadata.val # <<>> /\ contains(metadata.val[1].attribute, "derive")
         THEN Ok(<<Thing(<<"derive">>, <<metadata.val[1]>>, <<>>)>>, metadata.err)
         ELSE Ok(<<>>, metadata.err)
    ELSE Ok(<<>>, <<>>)

extract_relations(node) ==
    Collect([i \in 1..Len(node.children) |->
                relation_entry(node.children[i], extract_metadata(node.children[i]))])

constant_value(child, value_node) ==
    node_text(IF is_none(value_node) THEN child ELSE value_node[1])

constant_thing(child) ==
    IF child.kind # "const_item" THEN Ok(<<>>, <<>>)
    ELSE IF is_none(child_by_field_name(child, "name")) THEN Panic(<<>>)
    ELSE Ok(<<Thing(node_text(child_by_field_name(child, "name")[1]),
                    <<[value |-> constant_value(child,
                                     child_by_field_name(child, "value"))]>>,
                    <<>>)>>, <<>>)

extract_constants(node) ==
    Collect([i \in 1..Len(node.children) |-> constant_thing(node.children[i])])

\* A Thing with the name of the child only, or a panic when it has none.
named_thing(child) ==
    IF is_none(child_by_field_name(child, "name")) THEN Panic(<<>>)
    ELSE Ok(<<Thing(node_text(child_by_field_name(child, "name")[1]),
                    <<>>, <<>>)>>, <<>>)

extract_modules_and_impls(node) ==
    Collect([i \in 1..Len(node.children) |->
        IF node.children[i].kind = "mod_item" THEN named_thing(node.children[i])
        ELSE Ok(<<>>, <<>>)])

extract_nested(node) ==
    Collect([i \in 1..Len(node.children) |->
        IF node.children[i].kind \in {"function_item", "struct_item", "enum_item"}
        THEN named_thing(node.children[i])
        ELSE Ok(<<>>, <<>>)])

global_thing(child) ==
    IF child.kind # "let_declaration" THEN Ok(<<>>, <<>>)
    ELSE IF is_none(child_by_field_name(child, "name")) THEN Panic(<<>>)
    ELSE Ok(<<Thing(node_text(child_by_field_name(child, "name")[1]),
                    <<[type |-> map_node_text(child_by_field_name(child, "value"))]>>,
                    <<>>)>>, <<>>)

extract_globals(node) ==
    Collect([i \in 1..Len(node.children) |-> global_thing(node.children[i])])

\* Lines 392-398, with the outcome of extract_fields on the struct.
schema_entry(child, fields) ==
    IF child.kind # "struct_item" THEN Ok(<<>>, <<>>)
    ELSE Ok(<<Thing(IF is_none(child_by_field_name(child, "name"))
                    THEN <<"unknown">>
                    ELSE node_text(child_by_field_name(child, "name")[1]),
                    <<>>, fields.val)>>, fields.err)

extract_schema(node) ==
    Collect([i \in 1..Len(node.children) |->
                schema_entry(node.children[i], extract_fields(node.children[i]))])

\* ------------------------------------------------------------------------
\* main.rs: generate_json
\* ------------------------------------------------------------------------
\* The sections of the report in the order the json! macro evaluates them.
SectionNames ==
    <<"imports", "functions", "structs", "enums", "relations", "constants",
      "modules_and_impls", "metadata", "nested_items", "globals", "schemas">>

Section(name, root_node) ==
    CASE name = "imports" -> extract_imports(root_node)
      [] name = "functions" -> extract_functions(root_node)
      [] name = "structs" -> extract_structs(root_node)
      [] name = "enums" -> extract_enums(root_node)
      [] name = "relations" -> extract_relations(root_node)
      [] name = "constants" -> extract_constants(root_node)
      [] name = "modules_and_impls" -> extract_modules_and_impls(root_node)
      [] name = "metadata" -> extract_metadata(root_node)
      [] name = "nested_items" -> extract_nested(root_node)
      [] name = "globals" -> extract_globals(root_node)
      [] name = "schemas" -> extract_schema(root_node)

\* The json! object of the sections, or the panic of the first section that
\* panics.
Report(rs) ==
    LET panics == {i \in 1..Len(rs) : rs[i].panic}
        last == IF panics = {} THEN Len(rs)
                ELSE CHOOSE i \in panics : \A j \in panics : i <= j
    IN  [panic |-> panics # {},
         val |-> IF panics # {} THEN <<>>
                 ELSE [n \in Range(SectionNames) |->
                          rs[CHOOSE i \in 1..Len(rs) : SectionNames[i] = n].val],
         err |-> Flatten([i \in 1..last |-> rs[i].err])]

generate_json(root_node) ==
    Report([i \in 1..Len(SectionNames) |-> Section(SectionNames[i], root_node)])

\* ------------------------------------------------------------------------
\* main.rs: the source files read by main
\* ------------------------------------------------------------------------
\* A source file is a sequence of items; an item is a variant and the parts
\* it contains.  The item at position k is named Idents[k], the part at
\* position j of an item FieldIdents[j].
Idents == <<"a", "b", "c", "d", "e", "f">>
FieldIdents == <<"u", "v", "w", "x", "y", "z">>

Variants ==
    {"use", "fn", "fn_gap", "struct", "struct_gap", "enum", "enum_gap",
     "impl", "impl_type", "derive", "derive_nested", "const", "mod", "let",
     "let_gap"}

Parts(v) ==
    CASE v = "fn" -> {"let", "let_gap"}
      [] v \in {"struct", "struct_gap"} -> {"field", "gap", "fk"}
      [] v = "enum" -> {"variant", "gap"}
      [] v = "mod" -> {"fn", "struct"}
      [] OTHER -> {}

Named(kind, field, children) == Node(kind, field, TRUE, kind, children)
Leaf(kind, field, tok) == Node(kind, field, TRUE, tok, <<>>)

MkPart(v, part, j) ==
    LET id == FieldIdents[j]
    IN  CASE v = "fn" /\ part = "let" ->
                Named("let_declaration", "",
                      <<Token("let"), Leaf("identifier", "name", id), Token("="),
                        Leaf("integer_literal", "value", "1")>>)
          [] v = "fn" /\ part = "let_gap" ->
                Named("let_declaration", "",
                      <<Token("let"), Leaf("identifier", "pattern", id), Token("="),
                        Leaf("integer_literal", "value", "1")>>)
          [] v \in {"struct", "struct_gap"} /\ part = "field" ->
                Named("field_declaration", "",
                      <<Leaf("field_identifier", "name", id), Token(":"),
                        Leaf("primitive_type", "type", "f64")>>)
          [] v \in {"struct", "struct_gap"} /\ part = "fk" ->
                Named("field_declaration", "",
                      <<Named("attribute_item", "",
                              <<Token("#"), Leaf("attribute", "attribute", "foreign_key")>>),
                        Leaf("field_identifier", "name", id), Token(":"),
                        Leaf("primitive_type", "type", "f64")>>)
          [] v = "enum" /\ part = "variant" ->
                Named("enum_variant", "", <<Leaf("identifier", "name", id)>>)
          [] part = "gap" -> Leaf("line_comment", "", "//")
          [] v = "mod" /\ part = "fn" ->
                Named("function_item", "",
                      <<Token("fn"), Leaf("identifier", "name", id)>>)
          [] v = "mod" /\ part = "struct" ->
                Named("struct_item", "",
                      <<Token("struct"), Leaf("type_identifier", "name", id)>>)

\* The parameter list and the call inside every named function of a file.
Signature ==
    <<Named("parameters", "parameters",
            <<Token("("),
              Named("parameter", "",
                    <<Leaf("identifier", "pattern", "p"), Token(":"),
                      Leaf("primitive_type", "type", "f64")>>),
              Token(","),
              Named("self_parameter", "", <<Token("&"), Leaf("self", "", "self")>>),
              Token(")")>>),
      Named("call_expression", "",
            <<Leaf("identifier", "function", "g"),
              Named("arguments", "arguments", <<Token("("), Token(")")>>)>>)>>

MkItem(shape, k) ==
    LET v == shape.v
        id == Idents[k]
        parts == [j \in 1..Len(shape.parts) |-> MkPart(v, shape.parts[j], j)]
        braces == <<Token("{")>> \o parts \o <<Token("}")>>
    IN  CASE v = "use" ->
                Named("use_declaration", "",
                      <<Token("use"), Leaf("identifier", "argument", id)>>)
          [] v = "fn" ->
                Named("function_item", "",
                      <<Token("fn"), Leaf("identifier", "name", id)>> \o Signature
                          \o parts)
          [] v = "fn_gap" -> Named("function_item", "", <<Token("fn")>>)
          [] v = "struct" ->
                Named("struct_item", "",
                      <<Token("struct"), Leaf("type_identifier", "name", id),
                        Named("field_declaration_list", "body", braces)>>)
          [] v = "struct_gap" ->
                Named("struct_item", "",
                      <<Token("struct"),
                        Named("field_declaration_list", "body", braces)>>)
          [] v = "enum" ->
                Named("enum_item", "",
                      <<Token("enum"), Leaf("type_identifier", "name", id),
                        Named("enum_variant_list", "body", braces)>>)
          [] v = "enum_gap" -> Named("enum_item", "", <<Token("enum")>>)
          [] v = "impl" ->
                Named("impl_item", "",
                      <<Token("impl"), Leaf("type_identifier", "trait", "Debug"),
                        Token("for"), Leaf("type_identifier", "name", id)>>)
          [] v = "impl_type" ->
                Named("impl_item", "",
                      <<Token("impl"), Leaf("type_identifier", "type", id)>>)
          [] v = "derive" ->
                Named("attribute_item", "",
                      <<Token("#"), Leaf("attribute", "attribute", "derive")>>)
          [] v = "derive_nested" ->
                Named("attribute_item", "",
                      <<Named("attribute_item", "",
                              <<Token("#"), Leaf("attribute", "attribute", "derive")>>)>>)
          [] v = "const" ->
                Named("const_item", "",
                      <<Token("const"), Leaf("identifier", "name", id), Token("="),
                        Leaf("integer_literal", "value", "1")>>)
          [] v = "mod" ->
                Named("mod_item", "",
                      <<Token("mod"), Leaf("identifier", "name", id),
                        Named("declaration_list", "body", braces)>>)
          [] v = "let" ->
                Named("let_declaration", "",
                      <<Token("let"), Leaf("identifier", "name", id)>>)
          [] v = "let_gap" ->
                Named("let_declaration", "",
                      <<Token("let"), Leaf("identifier", "pattern", id)>>)

SeqsUpTo(S, n) == UNION {[1..m -> S] : m \in 0..n}

\* The items of size at most n.
Shapes(n) ==
    IF n < 1 THEN {}
    ELSE UNION {{[v |-> v, parts |-> ps] : ps \in SeqsUpTo(Parts(v), n - 1)} :
                   v \in Variants}

RECURSIVE ShapeSeqs(_)
ShapeSeqs(n) ==
    {<<>>} \cup UNION {{<<sh>> \o rest : rest \in ShapeSeqs(n - 1 - Len(sh.parts))} :
                          sh \in Shapes(n)}

SourceFile(ss) ==
    Named("source_file", "", [k \in 1..Len(ss) |-> MkItem(ss[k], k)])

\* ------------------------------------------------------------------------
\* main.rs: main
\* ------------------------------------------------------------------------
\* Lines 412-416: no file argument.
MainUsage ==
    /\ pc = "start"
    /\ args < 2
    /\ stderr' = Append(stderr, "Please provide a Rust file path as an argument.")
    /\ exit_code' = Some(0)
    /\ pc' = "exited"
    /\ UNCHANGED <<args, code, json_output, stdout>>

\* Line 419, the file cannot be read: expect panics.
ReadFail ==
    /\ pc = "start"
    /\ args >= 2
    /\ stderr' = Append(stderr, "Unable to read file")
    /\ exit_code' = Some(101)
    /\ pc' = "exited"
    /\ UNCHANGED <<args, code, json_output, stdout>>

\* Lines 419-420: the file is read and parsed.
ReadParse ==
    /\ pc = "start"
    /\ args >= 2
    /\ \E ss \in ShapeSeqs(MaxSize) : code' = Some(SourceFile(ss))
    /\ pc' = "service"
    /\ UNCHANGED <<args, json_output, stdout, stderr, exit_code>>

\* Line 421: generate_json returns the report or panics.
Returned(r) ==
    IF r.panic
    THEN /\ stderr' = stderr \o Panic(r.err).err
         /\ exit_code' = Some(101)
         /\ pc' = "exited"
         /\ UNCHANGED json_output
    ELSE /\ stderr' = stderr \o r.err
         /\ json_output' = Some(r.val)
         /\ pc' = "generated"
         /\ UNCHANGED exit_code

GenerateJson ==
    /\ pc = "service"
    /\ Returned(generate_json(code[1]))
    /\ UNCHANGED <<args, code, stdout>>

\* Lines 422-423: the document is printed and main returns.
PrintJson ==
    /\ pc = "generated"
    /\ stdout' = Append(stdout, json_output[1])
    /\ exit_code' = Some(0)
    /\ pc' = "exited"
    /\ UNCHANGED <<args, code, json_output, stderr>>

AstIdle ==
    /\ tree = None /\ ast_root = None /\ stack = <<>> /\ bpc = "idle"
    /\ ast_json = None /\ calls = <<>>

InitMain ==
    /\ AstIdle
    /\ args \in {1, 2}
    /\ code = None
    /\ pc = "start"
    /\ json_output = None
    /\ stdout = <<>>
    /\ stderr = <<>>
    /\ exit_code = None

NextMain ==
    \/ MainUsage /\ UNCHANGED astVars
    \/ ReadFail /\ UNCHANGED astVars
    \/ ReadParse /\ UNCHANGED astVars
    \/ GenerateJson /\ UNCHANGED astVars
    \/ PrintJson /\ UNCHANGED astVars

SpecMain == InitMain /\ [][NextMain]_vars

\* ------------------------------------------------------------------------
\* main.rs: properties of main and the extractors
\* ------------------------------------------------------------------------
\* generate_json has been called on the parsed file.
HasRun == pc = "generated" \/ (pc = "exited" /\ is_some(code))

RootNode == code[1]

KindChildren(node, kind) ==
    SelectSeq(node.children, LAMBDA c : c.kind = kind)

HasName(n) == is_some(child_by_field_name(n, "name"))
NameOf(n) == node_text(child_by_field_name(n, "name")[1])

\* The named children of the body of a struct or enum node.
BodyOf(n) ==
    LET b == child_by_field_name(n, "body")
    IN  IF is_none(b) THEN <<>> ELSE SelectSeq(b[1].children, IsNamed)

NamesOf(nodes) == [i \in 1..Len(nodes) |-> NameOf(nodes[i])]
NodeTexts(nodes) == [i \in 1..Len(nodes) |-> node_text(nodes[i])]
ThingNames(things) == [i \in 1..Len(things) |-> things[i].name]

\* An item, other than a struct field, that lacks the name child an
\* extractor takes from it.
UnwrapGap(root) ==
    \E i \in 1..Len(root.children) :
        LET c == root.children[i]
        IN  \/ /\ c.kind \in {"function_item", "struct_item", "enum_item",
                              "const_item", "mod_item", "let_declaration"}
               /\ ~HasName(c)
            \/ /\ c.kind = "function_item"
               /\ \E j \in 1..Len(c.children) :
                     c.children[j].kind = "let_declaration" /\ ~HasName(c.children[j])
            \/ /\ c.kind = "enum_item"
               /\ \E j \in 1..Len(BodyOf(c)) : ~HasName(BodyOf(c)[j])

FieldGap(root) ==
    \E i \in 1..Len(root.children) :
        /\ root.children[i].kind = "struct_item"
        /\ \E j \in 1..Len(BodyOf(root.children[i])) :
              ~HasName(BodyOf(root.children[i])[j])

AllNamed(root) == ~UnwrapGap(root) /\ ~FieldGap(root)

\* The fields of each entry are the named body children that have a name,
\* in document order, for the struct items in document order.
FieldsReported(entries, struct_nodes) ==
    /\ Len(entries) = Len(struct_nodes)
    /\ \A k \in 1..Len(entries) :
          ThingNames(entries[k].children) =
              NamesOf(SelectSeq(BodyOf(struct_nodes[k]), HasName))

\* C5: once generate_json has run on a file in which only struct fields may
\* lack a name, the report is complete and every struct of the structs and
\* schemas sections lists exactly the named body children that have a name,
\* in document order.
C5_FieldGapSkipped ==
    (HasRun /\ ~UnwrapGap(RootNode)) =>
        /\ is_some(json_output)
        /\ FieldsReported(json_output[1].structs,
                          KindChildren(RootNode, "struct_item"))
        /\ FieldsReported(json_output[1].schemas,
                          KindChildren(RootNode, "struct_item"))

\* C5 witness: the report of a file with a struct whose body has a child
\* without a name before a field with a name, which is reported.
C5_Witness ==
    /\ is_some(json_output)
    /\ \E i \in 1..Len(RootNode.children) :
          LET body == BodyOf(RootNode.children[i])
          IN  /\ RootNode.children[i].kind = "struct_item"
              /\ \E j, k \in 1..Len(body) :
                    /\ j < k /\ ~HasName(body[j]) /\ HasName(body[k])
                    /\ \E e \in Range(json_output[1].structs) :
                          NameOf(body[k]) \in Range(ThingNames(e.children))

\* C6 (as claimed): generate_json completes on every file, and the
\* functions section lists every function_item that has a name.
C6_NeverAborts ==
    HasRun =>
        /\ is_some(json_output)
        /\ ThingNames(json_output[1].functions) =
              NamesOf(SelectSeq(KindChildren(RootNode, "function_item"), HasName))

\* The relationship facts an entry of the schemas section carries.
Relationships(entry) ==
    SelectSeq(entry.attributes, LAMBDA a : "relationship" \in DOMAIN a)

HasForeignKey(field) ==
    \E i \in 1..Len(field.children) :
        LET a == child_by_field_name(field.children[i], "attribute")
        IN  /\ field.children[i].kind = "attribute_item"
            /\ is_some(a)
            /\ contains(node_text(a[1]), "foreign_key")

ForeignKeyFacts(struct_node) ==
    LET fs == SelectSeq(BodyOf(struct_node),
                        LAMBDA f : HasName(f) /\ HasForeignKey(f))
    IN  [i \in 1..Len(fs) |->
            [field_name |-> NameOf(fs[i]), relationship |-> <<"foreign_key">>]]

\* C7 (as claimed): every entry of the schemas section carries one
\* relationship fact for each of its fields annotated with the foreign_key
\* marker, and no other.
C7_SchemaRelationships ==
    is_some(json_output) =>
        \A k \in 1..Len(json_output[1].schemas) :
            Relationships(json_output[1].schemas[k]) =
                ForeignKeyFacts(KindChildren(RootNode, "struct_item")[k])

\* C8 (as claimed): a run without the file argument prints the usage
\* message, extracts nothing and exits with a non-zero status; status zero
\* is only that of a run that wrote the document.
C8_CommandSurface ==
    pc = "exited" =>
        /\ args < 2 =>
              /\ stderr # <<>>
              /\ is_none(json_output)
              /\ exit_code # Some(0)
        /\ exit_code = Some(0) => stdout # <<>>

\* The tag of an entry of the relations section, with the raw text of a
\* derive entry.
RelationTag(entry) ==
    IF "attribute" \in DOMAIN entry.attributes[1]
    THEN <<"derive", entry.attributes[1].attribute>>
    ELSE <<"impl">>

ExpectedRelations(node) ==
    LET own(c) == child_by_field_name(c, "attribute")
        marked == SelectSeq(node.children,
                      LAMBDA c : \/ c.kind = "impl_item"
                                 \/ /\ c.kind = "attribute_item"
                                    /\ is_some(own(c))
                                    /\ contains(node_text(own(c)[1]), "derive"))
    IN  [i \in 1..Len(marked) |->
            IF marked[i].kind = "impl_item" THEN <<"impl">>
            ELSE <<"derive", node_text(own(marked[i])[1])>>]

\* C9 (as claimed): the relations section has, in document order, an impl
\* entry for every direct impl_item child and a derive entry, with the raw
\* text, for every direct attribute_item child whose own attribute text
\* contains derive.
C9_Relations ==
    is_some(json_output) =>
        [i \in 1..Len(json_output[1].relations) |->
            RelationTag(json_output[1].relations[i])] = ExpectedRelations(RootNode)

\* The children of each entry are the named body children of the items, for
\* the items in document order.
BodiesReported(entries, nodes) ==
    /\ ThingNames(entries) = NamesOf(nodes)
    /\ \A k \in 1..Len(entries) :
          ThingNames(entries[k].children) = NamesOf(BodyOf(nodes[k]))

\* C10: once generate_json has run on a file whose items all have their
\* name children, the imports, functions, structs and enums sections have
\* one entry for each direct child of the root of the matching kind, in
\* document order, and none for deeper nodes; each struct and enum entry has
\* one child for each named child of its body.
C10_DirectScan ==
    (HasRun /\ AllNamed(RootNode)) =>
        /\ is_some(json_output)
        /\ ThingNames(json_output[1].imports) =
              NodeTexts(KindChildren(RootNode, "use_declaration"))
        /\ ThingNames(json_output[1].functions) =
              NamesOf(KindChildren(RootNode, "function_item"))
        /\ BodiesReported(json_output[1].structs,
                          KindChildren(RootNode, "struct_item"))
        /\ BodiesReported(json_output[1].enums,
                          KindChildren(RootNode, "enum_item"))

\* C10 witness: the report of a file whose items all have names, with a
\* function at the top level and another one inside a module.
C10_Witness ==
    /\ is_some(json_output)
    /\ AllNamed(RootNode)
    /\ Len(json_output[1].functions) = 1
    /\ \E i \in 1..Len(RootNode.children) :
          /\ RootNode.children[i].kind = "mod_item"
          /\ \E j \in 1..Len(BodyOf(RootNode.children[i])) :
                BodyOf(RootNode.children[i])[j].kind = "function_item"

====
